---- MODULE Spec2Model ----
(***************************************************************************)
(* nf/vanity: the host resolution cache of the vanity web server           *)
(* (src/vanity.go) and of its predecessor gimpy (src/gimpy.go).            *)
(*                                                                         *)
(* Strings are sequences of one-character strings, so that HasPrefix,      *)
(* Fields and SplitHostPort are computed character by character.           *)
(* A nil *Host / *Import / error is the record [nil |-> TRUE].             *)
(***************************************************************************)
EXTENDS Integers, Sequences, FiniteSets, TLC

\* ------------------------------------------------------------------ bounds
\* The clock runs from 0 to MaxTime ticks.
MaxTime == 3
\* Longest remainder (after the literal prefix) the parser is driven with.
MaxLen == 7
MaxHostLen == 4

\* ------------------------------------------------------- program constants
\* -refresh flag of vanity (15 minutes), in clock ticks.
refresh == 2
\* gimpy's fixed time.Hour, in clock ticks.
Hour == 2

Tasks == {"t1", "t2"}
NoTask == "none"

Nil == [nil |-> TRUE]

\* ----------------------------------------------------------------- strings
\* unicode.IsSpace restricted to the characters the model uses.
isSpace(c) == c \in {" ", "\t", "\n"}

\* strings.HasPrefix
HasPrefix(s, p) == Len(s) >= Len(p) /\ SubSeq(s, 1, Len(p)) = p

RECURSIVE FieldsFrom(_, _, _, _)
FieldsFrom(s, i, cur, acc) ==
    IF i > Len(s)
    THEN IF cur # <<>> THEN Append(acc, cur) ELSE acc
    ELSE IF isSpace(s[i])
         THEN FieldsFrom(s, i + 1, <<>>, IF cur # <<>> THEN Append(acc, cur) ELSE acc)
         ELSE FieldsFrom(s, i + 1, Append(cur, s[i]), acc)

\* strings.Fields: the maximal runs of non-space characters, in order.
Fields(s) == FieldsFrom(s, 1, <<>>, <<>>)

\* const p = "go-import "
p == <<"g", "o", "-", "i", "m", "p", "o", "r", "t", " ">>

\* parseImport with the slip len(f) < 3: extra fields are ignored.
parseImport_atLeast3(s) ==
    IF ~HasPrefix(s, p)
    THEN Nil
    ELSE LET f == Fields(SubSeq(s, Len(p) + 1, Len(s)))
         IN  IF Len(f) < 3 THEN Nil
             ELSE [Prefix |-> f[1], VCS |-> f[2], URL |-> f[3]]

parseImport(s) ==
    IF ~HasPrefix(s, p)
    THEN Nil
    ELSE LET f == Fields(SubSeq(s, Len(p) + 1, Len(s)))
         IN  IF Len(f) # 3 THEN Nil
             ELSE [Prefix |-> f[1], VCS |-> f[2], URL |-> f[3]]


\* ------------------------------------------------------------ the DNS side
\* TXT strings the resolver may carry.
sA == p \o <<"a", " ", "g", " ", "u">>
sB == p \o <<" ", "b", "\t", "h", " ", " ", "v", " ">>
sTwo == p \o <<"a", " ", "g">>
sFour == p \o <<"a", " ", "g", " ", "u", " ", "x">>
sNoPrefix == <<"n", "o", "t", "-">> \o sA

TXT(strs) == [Type |-> "TXT", Txt |-> strs]
OtherRR == [Type |-> "A", Txt |-> <<>>]

\* dns.Msg values a successful exchange may return (r.Answer).
Responses ==
    { [Answer |-> <<>>],
      [Answer |-> <<TXT(<<sA>>)>>],
      [Answer |-> <<TXT(<<sTwo, sB>>), OtherRR, TXT(<<sNoPrefix, sA>>)>>],
      [Answer |-> <<OtherRR, TXT(<<sFour, sNoPrefix>>)>>] }

\* Errors s.dns.Exchange may return.
DNSErrors == { [msg |-> "i/o timeout"] }

\* errors.New("no go-import TXT records found")
ErrNoImports == [msg |-> "no go-import TXT records found"]

\* ------------------------------------------------------------ the requests
RequestHosts == { <<"a">>, <<"a", ":", "8">>, <<"b">> }
GoGetValues == { "1", "" }
Paths == { <<"/">>, <<"/", "x">> }
Requests == [Host : RequestHosts, goget : GoGetValues, path : Paths]

RECURSIVE lastColon(_, _)
lastColon(s, i) == IF i = 0 THEN 0 ELSE IF s[i] = ":" THEN i ELSE lastColon(s, i - 1)

\* net.SplitHostPort for addresses without brackets: the host before the last
\* colon; an error (and empty results) when there is no colon or more than one.
SplitHostPort(hostport) ==
    LET i == lastColon(hostport, Len(hostport))
    IN  IF i = 0
        THEN [host |-> <<>>, port |-> <<>>, err |-> [msg |-> "missing port in address"]]
        ELSE IF lastColon(hostport, i - 1) # 0
        THEN [host |-> <<>>, port |-> <<>>, err |-> [msg |-> "too many colons in address"]]
        ELSE [host |-> SubSeq(hostport, 1, i - 1),
              port |-> SubSeq(hostport, i + 1, Len(hostport)), err |-> Nil]

\* vanity: host, _, err := net.SplitHostPort(r.Host); if err != nil { host = r.Host }
vanityHost(rHost) ==
    LET sp == SplitHostPort(rHost) IN IF sp.err # Nil THEN rHost ELSE sp.host

\* gimpy: host, _, _ := net.SplitHostPort(r.Host)
gimpyHost(rHost) == SplitHostPort(rHost).host

godoc == <<"g", "o", "d", "o", "c", ".", "o", "r", "g", "/">>

\* vanity: every request without go-get=1 is redirected to godoc.org.
vanityNoGoGet(hst, path) == [status |-> 302, location |-> godoc \o hst \o path]

\* gimpy: the root path is answered with not-found, the rest redirected.
gimpyNoGoGet(hst, path) ==
    IF path = <<"/">>
    THEN [status |-> 404]
    ELSE [status |-> 302, location |-> godoc \o hst \o path]

\* ------------------------------------------------------------------- state
VARIABLES
    prog,       \* which command runs: "vanity" or "gimpy"
    now,        \* time.Now()
    hosts,      \* Server.hosts: a function from the stored hostnames to *Host
    readers,    \* tasks holding Server.mu for reading
    w,          \* task inside mu.Lock() or holding mu exclusively
    locked,     \* the exclusive lock is granted to w
    pc,         \* per task: position in ServeHTTP / match / lookup
    goget,      \* per task: r.FormValue("go-get")
    host,       \* per task: the hostname ServeHTTP derived
    h,          \* per task: the *Host local of ServeHTTP / lookup
    r,          \* per task: the dns.Msg the exchange returned
    lerr,       \* per task: the err local of lookup (from s.dns.Exchange)
    err,        \* per task: the err local of ServeHTTP (from lookup)
    resp,       \* per task: what was written to the ResponseWriter
    cancelled,  \* per task: the request's context is cancelled
    calls,      \* history: s.dns.Exchange calls of the current request
    fast,       \* history: match returned an entry to the current request
    tnow,       \* history: the time.Now() lookup read when it built h
    dirty,      \* history: hosts[host] was stored to since the task's match read
    storedAt,   \* history: per stored hostname, the tnow of the stored entry
    qname,      \* history: per task, the question name of its exchange
    storedQ,    \* history: per stored hostname, the question its entry answers
    str,        \* the parser's input (parser specification)
    parsed      \* the parser's output (parser specification)

taskVars == <<pc, goget, host, h, r, lerr, err, resp, cancelled, calls, qname, fast, tnow,
              dirty>>
muVars == <<readers, w, locked>>
parseVars == <<str, parsed>>
vars == <<prog, now, hosts, storedAt, storedQ, muVars, taskVars, parseVars>>

Unparsed == [unparsed |-> TRUE]

\* s.refresh (vanity) or time.Hour (gimpy)
Refresh == IF prog = "gimpy" THEN Hour ELSE refresh

\* After with the slip of an entry going stale one tick early.
After_early(expiry, t) == expiry > t + 1

\* After with the slip !Before: an entry is still served at its expiry.
After_inclusive(expiry, t) == expiry >= t

\* h.expiry.After(t)
After(expiry, t) == expiry > t

\* m[k] of a Go map of pointers: nil when the key is absent.
Get(m, k) == IF k \in DOMAIN m THEN m[k] ELSE Nil

\* m[k] = v
Put(m, k, v) == [x \in DOMAIN m \cup {k} |-> IF x = k THEN v ELSE m[x]]


\* ------------------------------------------------------------------ lookup
\* walkTxt with the slip of prepending instead of appending.
RECURSIVE walkTxt_prepend(_, _, _)
walkTxt_prepend(txt, j, imports) ==
    IF j > Len(txt) THEN imports
    ELSE LET i == parseImport(txt[j])
         IN  walkTxt_prepend(txt, j + 1, IF i # Nil THEN <<i>> \o imports ELSE imports)

\* for _, s := range t.Txt { if i := parseImport(s); i != nil { append } }
RECURSIVE walkTxt(_, _, _)
walkTxt(txt, j, imports) ==
    IF j > Len(txt) THEN imports
    ELSE LET i == parseImport(txt[j])
         IN  walkTxt(txt, j + 1, IF i # Nil THEN Append(imports, i) ELSE imports)

\* for _, a := range r.Answer { t, ok := a.(*dns.TXT); if !ok { continue }; ... }
RECURSIVE walkAnswer(_, _, _)
walkAnswer(answer, k, imports) ==
    IF k > Len(answer) THEN imports
    ELSE walkAnswer(answer, k + 1,
                    IF answer[k].Type # "TXT" THEN imports
                    ELSE walkTxt(answer[k].Txt, 1, imports))

\* h := &Host{expiry: time.Now().Add(s.refresh)} followed by the loops.
buildHost(msg, t) == [imports |-> walkAnswer(msg.Answer, 1, <<>>), expiry |-> t + Refresh]

\* noImports with the test left out: every answer is stored.
noImports_never(hst) == FALSE

\* noImports with the slip of testing the pointer instead of the length.
noImports_nil(hst) == hst = Nil

\* if len(h.imports) == 0 { return nil, errors.New(...) }
noImports(hst) == Len(hst.imports) = 0

\* m.SetQuestion(name+".", dns.TypeTXT): the name the exchange asks about.
Question(name) == name \o <<".">>

\* ------------------------------------------------------------------- match
\* matchResult with the slip of returning the entry whatever its expiry.
matchResult_ignoreExpiry(m, k, t) == Get(m, k)

\* if h := s.hosts[host]; h != nil && h.expiry.After(time.Now()) { return h }; return nil
matchResult(m, k, t) ==
    LET e == Get(m, k) IN IF e # Nil /\ After(e.expiry, t) THEN e ELSE Nil

\* ---------------------------------------------------------------- RWMutex
\* RLock with the slip of a plain map read: no waiting for the writer.
canRLock_always == TRUE

\* RLock proceeds unless a writer holds or has announced itself.
canRLock == w = NoTask
\* Lock first takes the writers' mutex rw.w ...
canLock == w = NoTask
\* ... then waits for the active readers to leave.
canAcquire == readers = {}

\* ---------------------------------------------------------------- template
\* metaTmpl with the slip of ranging over the imports backwards.
metaTmpl_reverse(imports) ==
    [i \in 1..Len(imports) |->
        LET x == imports[Len(imports) + 1 - i]
        IN  [name |-> "go-import",
             content |-> x.Prefix \o <<" ">> \o x.VCS \o <<" ">> \o x.URL]]

\* {{range .}}<meta name="go-import" content="{{.Prefix}} {{.VCS}} {{.URL}}">{{end}}
\* (the characters of the model are none that html/template escapes)
metaTmpl(imports) ==
    [i \in 1..Len(imports) |->
        [name |-> "go-import",
         content |-> imports[i].Prefix \o <<" ">> \o imports[i].VCS \o <<" ">> \o imports[i].URL]]

\* -------------------------------------------------------------------- Init
\* NewServer: an empty hosts map, an unlocked mutex; no request is being served.
NewServer ==
    /\ now = 0
    /\ hosts = [x \in {} |-> Nil]
    /\ storedAt = [x \in {} |-> 0]
    /\ storedQ = [x \in {} |-> <<>>]
    /\ readers = {}
    /\ w = NoTask
    /\ locked = FALSE
    /\ pc = [t \in Tasks |-> "idle"]
    /\ goget = [t \in Tasks |-> ""]
    /\ host = [t \in Tasks |-> <<>>]
    /\ h = [t \in Tasks |-> Nil]
    /\ r = [t \in Tasks |-> Nil]
    /\ lerr = [t \in Tasks |-> Nil]
    /\ err = [t \in Tasks |-> Nil]
    /\ resp = [t \in Tasks |-> Nil]
    /\ cancelled = [t \in Tasks |-> FALSE]
    /\ calls = [t \in Tasks |-> 0]
    /\ qname = [t \in Tasks |-> <<>>]
    /\ fast = [t \in Tasks |-> FALSE]
    /\ tnow = [t \in Tasks |-> 0]
    /\ dirty = [t \in Tasks |-> FALSE]

\* The vanity command.
Init ==
    /\ prog = "vanity"
    /\ NewServer
    /\ str = <<>>
    /\ parsed = Unparsed

\* The gimpy command.
InitGimpy ==
    /\ prog = "gimpy"
    /\ NewServer
    /\ str = <<>>
    /\ parsed = Unparsed

\* ----------------------------------------------------------------- actions
\* ServeHTTP up to the call of match (vanity.go 136-147, gimpy.go 61-72).
ServeHTTP(t) ==
    /\ pc[t] = "idle"
    /\ \E rq \in Requests :
         LET hst == IF prog = "gimpy" THEN gimpyHost(rq.Host) ELSE vanityHost(rq.Host)
         IN  /\ goget' = [goget EXCEPT ![t] = rq.goget]
             /\ host' = [host EXCEPT ![t] = hst]
             /\ IF rq.goget # "1"
                THEN /\ resp' = [resp EXCEPT ![t] =
                                   IF prog = "gimpy" THEN gimpyNoGoGet(hst, rq.path)
                                   ELSE vanityNoGoGet(hst, rq.path)]
                     /\ pc' = [pc EXCEPT ![t] = "done"]
                ELSE /\ resp' = resp
                     /\ pc' = [pc EXCEPT ![t] = "rlock"]
    /\ UNCHANGED <<prog, now, hosts, storedAt, storedQ, muVars, h, r, lerr, err, cancelled, calls, qname,
                   fast, tnow, dirty, parseVars>>

\* match: s.mu.RLock()
RLock(t) ==
    /\ pc[t] = "rlock"
    /\ canRLock
    /\ readers' = readers \cup {t}
    /\ pc' = [pc EXCEPT ![t] = "read"]
    /\ UNCHANGED <<prog, now, hosts, storedAt, storedQ, w, locked, goget, host, h, r, lerr, err, resp,
                   cancelled, calls, qname, fast, tnow, dirty, parseVars>>

\* match: the read of s.hosts[host] and the expiry test.
matchRead(t) ==
    /\ pc[t] = "read"
    /\ h' = [h EXCEPT ![t] = matchResult(hosts, host[t], now)]
    /\ dirty' = [dirty EXCEPT ![t] = FALSE]
    /\ pc' = [pc EXCEPT ![t] = "runlock"]
    /\ UNCHANGED <<prog, now, hosts, storedAt, storedQ, muVars, goget, host, r, lerr, err, resp,
                   cancelled, calls, qname, fast, tnow, parseVars>>

\* RUnlock with the slip of a missing defer: the read lock is kept on return.
RUnlock_leak(t) ==
    /\ pc[t] = "runlock"
    /\ readers' = readers
    /\ IF h[t] # Nil
       THEN /\ fast' = [fast EXCEPT ![t] = TRUE]
            /\ resp' = [resp EXCEPT ![t] = [status |-> 200, body |-> metaTmpl(h[t].imports)]]
            /\ pc' = [pc EXCEPT ![t] = "done"]
            /\ calls' = calls
            /\ qname' = qname
       ELSE /\ calls' = [calls EXCEPT ![t] = calls[t] + 1]
            /\ qname' = [qname EXCEPT ![t] = Question(host[t])]
            /\ pc' = [pc EXCEPT ![t] = "wait"]
            /\ UNCHANGED <<fast, resp>>
    /\ UNCHANGED <<prog, now, hosts, storedAt, storedQ, w, locked, goget, host, h, r, lerr, err,
                   cancelled, tnow, dirty, parseVars>>

\* match: the deferred s.mu.RUnlock() and the return into ServeHTTP. A hit is
\* rendered with metaTmpl; on nil ServeHTTP calls lookup, which issues
\* s.dns.Exchange(m, s.resolver) without the request's context.
RUnlock(t) ==
    /\ pc[t] = "runlock"
    /\ readers' = readers \ {t}
    /\ IF h[t] # Nil
       THEN /\ fast' = [fast EXCEPT ![t] = TRUE]
            /\ resp' = [resp EXCEPT ![t] = [status |-> 200, body |-> metaTmpl(h[t].imports)]]
            /\ pc' = [pc EXCEPT ![t] = "done"]
            /\ calls' = calls
            /\ qname' = qname
       ELSE /\ calls' = [calls EXCEPT ![t] = calls[t] + 1]
            /\ qname' = [qname EXCEPT ![t] = Question(host[t])]
            /\ pc' = [pc EXCEPT ![t] = "wait"]
            /\ UNCHANGED <<fast, resp>>
    /\ UNCHANGED <<prog, now, hosts, storedAt, storedQ, w, locked, goget, host, h, r, lerr, err,
                   cancelled, tnow, dirty, parseVars>>

\* exchangeResult with the slip of caching a failed exchange as an empty entry.
exchangeResult_cacheError(t, a) ==
    IF a \in DNSErrors
    THEN /\ lerr' = [lerr EXCEPT ![t] = a]
         /\ h' = [h EXCEPT ![t] = [imports |-> <<>>, expiry |-> now + Refresh]]
         /\ tnow' = [tnow EXCEPT ![t] = now]
         /\ pc' = [pc EXCEPT ![t] = "lock"]
         /\ UNCHANGED <<r, err, resp>>
    ELSE LET built == buildHost(a, now)
         IN  /\ r' = [r EXCEPT ![t] = a]
             /\ lerr' = lerr
             /\ IF noImports(built)
                THEN /\ err' = [err EXCEPT ![t] = ErrNoImports]
                     /\ resp' = [resp EXCEPT ![t] = [status |-> 404]]
                     /\ pc' = [pc EXCEPT ![t] = "done"]
                     /\ UNCHANGED <<h, tnow>>
                ELSE /\ h' = [h EXCEPT ![t] = built]
                     /\ tnow' = [tnow EXCEPT ![t] = now]
                     /\ pc' = [pc EXCEPT ![t] = "lock"]
                     /\ UNCHANGED <<err, resp>>

\* What lookup does with the result a of the exchange (vanity.go 178-196): an
\* error is returned to ServeHTTP, which logs it and answers not-found; an answer
\* is parsed into h, and without imports lookup returns its own error.
exchangeResult(t, a) ==
    IF a \in DNSErrors
    THEN /\ lerr' = [lerr EXCEPT ![t] = a]
         /\ err' = [err EXCEPT ![t] = a]
         /\ resp' = [resp EXCEPT ![t] = [status |-> 404]]
         /\ pc' = [pc EXCEPT ![t] = "done"]
         /\ UNCHANGED <<r, h, tnow>>
    ELSE LET built == buildHost(a, now)
         IN  /\ r' = [r EXCEPT ![t] = a]
             /\ lerr' = lerr
             /\ IF noImports(built)
                THEN /\ err' = [err EXCEPT ![t] = ErrNoImports]
                     /\ resp' = [resp EXCEPT ![t] = [status |-> 404]]
                     /\ pc' = [pc EXCEPT ![t] = "done"]
                     /\ UNCHANGED <<h, tnow>>
                ELSE /\ h' = [h EXCEPT ![t] = built]
                     /\ tnow' = [tnow EXCEPT ![t] = now]
                     /\ pc' = [pc EXCEPT ![t] = "lock"]
                     /\ UNCHANGED <<err, resp>>

\* ExchangeReturn with the slip of issuing the exchange again after an error.
ExchangeReturn_retry(t) ==
    /\ pc[t] = "wait"
    /\ \/ /\ calls[t] < 2
          /\ calls' = [calls EXCEPT ![t] = calls[t] + 1]
          /\ qname' = qname
          /\ UNCHANGED <<pc, r, h, lerr, err, resp, tnow>>
       \/ /\ \E a \in Responses \cup DNSErrors : exchangeResult(t, a)
          /\ calls' = calls
          /\ qname' = qname
    /\ UNCHANGED <<prog, now, hosts, storedAt, storedQ, muVars, goget, host, cancelled,
                   fast, dirty, parseVars>>

\* ExchangeReturn with the slip of evicting the entry when the exchange fails.
ExchangeReturn_evict(t) ==
    /\ pc[t] = "wait"
    /\ \E a \in Responses \cup DNSErrors :
          /\ exchangeResult(t, a)
          /\ LET keep == IF a \in DNSErrors THEN DOMAIN hosts \ {host[t]} ELSE DOMAIN hosts
             IN  /\ hosts' = [k \in keep |-> hosts[k]]
                 /\ storedAt' = [k \in keep |-> storedAt[k]]
                 /\ storedQ' = [k \in keep |-> storedQ[k]]
    /\ UNCHANGED <<prog, now, muVars, goget, host, cancelled, calls, qname,
                   fast, dirty, parseVars>>

\* lookup: the exchange returns an answer or an error, and lookup runs up to
\* its return of an error or its call of s.mu.Lock(). Every caller receives its
\* own result; callers coalesced by the client's SingleInflight receive equal
\* ones, which is one of the outcomes.
ExchangeReturn(t) ==
    /\ pc[t] = "wait"
    /\ \E a \in Responses \cup DNSErrors : exchangeResult(t, a)
    /\ UNCHANGED <<prog, now, hosts, storedAt, storedQ, muVars, goget, host, cancelled, calls, qname,
                   fast, dirty, parseVars>>

\* lookup: s.mu.Lock() takes the writers' mutex and announces the writer.
Lock(t) ==
    /\ pc[t] = "lock"
    /\ canLock
    /\ w' = t
    /\ pc' = [pc EXCEPT ![t] = "lockwait"]
    /\ UNCHANGED <<prog, now, hosts, storedAt, storedQ, readers, locked, goget, host, h, r, lerr, err,
                   resp, cancelled, calls, qname, fast, tnow, dirty, parseVars>>

\* lookup: s.mu.Lock() returns once the active readers have left.
LockAcquire(t) ==
    /\ pc[t] = "lockwait"
    /\ canAcquire
    /\ locked' = TRUE
    /\ pc' = [pc EXCEPT ![t] = "store"]
    /\ UNCHANGED <<prog, now, hosts, storedAt, storedQ, readers, w, goget, host, h, r, lerr, err, resp,
                   cancelled, calls, qname, fast, tnow, dirty, parseVars>>

\* Positions of a request after its match has read the map.
AfterRead == {"runlock", "wait", "lock", "lockwait", "store", "unlock", "done"}

\* lookupStore with the slip of keeping a stored entry that expires later.
lookupStore_keepNewer(t) ==
    /\ pc[t] = "store"
    /\ IF host[t] \in DOMAIN hosts /\ hosts[host[t]].expiry > h[t].expiry
       THEN UNCHANGED <<hosts, storedAt, storedQ, dirty>>
       ELSE /\ hosts' = Put(hosts, host[t], h[t])
            /\ storedAt' = Put(storedAt, host[t], tnow[t])
            /\ storedQ' = Put(storedQ, host[t], qname[t])
            /\ dirty' = [u \in Tasks |->
                           IF host[u] = host[t] /\ pc[u] \in AfterRead THEN TRUE ELSE dirty[u]]
    /\ pc' = [pc EXCEPT ![t] = "unlock"]
    /\ UNCHANGED <<prog, now, muVars, goget, host, h, r, lerr, err, resp, cancelled, calls, qname,
                   fast, tnow, parseVars>>

\* lookupStore with the slip of rewriting the stored Host in place, which every
\* holder of the old entry then sees.
lookupStore_inplace(t) ==
    /\ pc[t] = "store"
    /\ hosts' = Put(hosts, host[t], h[t])
    /\ storedAt' = Put(storedAt, host[t], tnow[t])
    /\ storedQ' = Put(storedQ, host[t], qname[t])
    /\ dirty' = [u \in Tasks |->
                   IF host[u] = host[t] /\ pc[u] \in AfterRead THEN TRUE ELSE dirty[u]]
    /\ h' = [u \in Tasks |->
               IF u # t /\ h[u] # Nil /\ h[u] = Get(hosts, host[t]) THEN h[t] ELSE h[u]]
    /\ pc' = [pc EXCEPT ![t] = "unlock"]
    /\ UNCHANGED <<prog, now, muVars, goget, host, r, lerr, err, resp, cancelled, calls, qname,
                   fast, tnow, parseVars>>

\* lookupStore with the slip of storing under the hostname of another request.
lookupStore_wrongKey(t) ==
    /\ pc[t] = "store"
    /\ LET key == CHOOSE k \in {host[u] : u \in Tasks \ {t}} : TRUE
       IN  /\ hosts' = Put(hosts, key, h[t])
           /\ storedAt' = Put(storedAt, key, tnow[t])
           /\ storedQ' = Put(storedQ, key, qname[t])
    /\ dirty' = [u \in Tasks |->
                   IF host[u] = host[t] /\ pc[u] \in AfterRead THEN TRUE ELSE dirty[u]]
    /\ pc' = [pc EXCEPT ![t] = "unlock"]
    /\ UNCHANGED <<prog, now, muVars, goget, host, h, r, lerr, err, resp, cancelled, calls,
                   qname, fast, tnow, parseVars>>

\* lookup: s.hosts[name] = h
lookupStore(t) ==
    /\ pc[t] = "store"
    /\ hosts' = Put(hosts, host[t], h[t])
    /\ storedAt' = Put(storedAt, host[t], tnow[t])
    /\ storedQ' = Put(storedQ, host[t], qname[t])
    /\ dirty' = [u \in Tasks |->
                   IF host[u] = host[t] /\ pc[u] \in AfterRead THEN TRUE ELSE dirty[u]]
    /\ pc' = [pc EXCEPT ![t] = "unlock"]
    /\ UNCHANGED <<prog, now, muVars, goget, host, h, r, lerr, err, resp, cancelled, calls, qname,
                   fast, tnow, parseVars>>

\* Unlock with the slip of a missing defer: lookup returns holding the lock.
Unlock_keep(t) ==
    /\ pc[t] = "unlock"
    /\ UNCHANGED <<w, locked>>
    /\ resp' = [resp EXCEPT ![t] = [status |-> 200, body |-> metaTmpl(h[t].imports)]]
    /\ pc' = [pc EXCEPT ![t] = "done"]
    /\ UNCHANGED <<prog, now, hosts, storedAt, storedQ, readers, goget, host, h, r, lerr, err,
                   cancelled, calls, qname, fast, tnow, dirty, parseVars>>

\* lookup: the deferred s.mu.Unlock() and return h, nil; ServeHTTP renders h.
Unlock(t) ==
    /\ pc[t] = "unlock"
    /\ w' = NoTask
    /\ locked' = FALSE
    /\ resp' = [resp EXCEPT ![t] = [status |-> 200, body |-> metaTmpl(h[t].imports)]]
    /\ pc' = [pc EXCEPT ![t] = "done"]
    /\ UNCHANGED <<prog, now, hosts, storedAt, storedQ, readers, goget, host, h, r, lerr, err,
                   cancelled, calls, qname, fast, tnow, dirty, parseVars>>

\* The client goes away while the exchange is in flight: r.Context() is done.
Cancel(t) ==
    /\ pc[t] = "wait"
    /\ ~cancelled[t]
    /\ cancelled' = [cancelled EXCEPT ![t] = TRUE]
    /\ UNCHANGED <<prog, now, hosts, storedAt, storedQ, muVars, pc, goget, host, h, r, lerr, err, resp,
                   calls, qname, fast, tnow, dirty, parseVars>>

\* ServeHTTP has returned; the goroutine serves its next request.
Finish(t) ==
    /\ pc[t] = "done"
    /\ pc' = [pc EXCEPT ![t] = "idle"]
    /\ goget' = [goget EXCEPT ![t] = ""]
    /\ host' = [host EXCEPT ![t] = <<>>]
    /\ h' = [h EXCEPT ![t] = Nil]
    /\ r' = [r EXCEPT ![t] = Nil]
    /\ lerr' = [lerr EXCEPT ![t] = Nil]
    /\ err' = [err EXCEPT ![t] = Nil]
    /\ resp' = [resp EXCEPT ![t] = Nil]
    /\ cancelled' = [cancelled EXCEPT ![t] = FALSE]
    /\ calls' = [calls EXCEPT ![t] = 0]
    /\ qname' = [qname EXCEPT ![t] = <<>>]
    /\ fast' = [fast EXCEPT ![t] = FALSE]
    /\ tnow' = [tnow EXCEPT ![t] = 0]
    /\ dirty' = [dirty EXCEPT ![t] = FALSE]
    /\ UNCHANGED <<prog, now, hosts, storedAt, storedQ, muVars, parseVars>>

\* The clock advances.
Tick ==
    /\ now < MaxTime
    /\ now' = now + 1
    /\ UNCHANGED <<prog, hosts, storedAt, storedQ, muVars, taskVars, parseVars>>

Next ==
    \/ \E t \in Tasks : ServeHTTP(t)
    \/ \E t \in Tasks : RLock(t)
    \/ \E t \in Tasks : matchRead(t)
    \/ \E t \in Tasks : RUnlock(t)
    \/ \E t \in Tasks : ExchangeReturn(t)
    \/ \E t \in Tasks : Lock(t)
    \/ \E t \in Tasks : LockAcquire(t)
    \/ \E t \in Tasks : lookupStore(t)
    \/ \E t \in Tasks : Unlock(t)
    \/ \E t \in Tasks : Cancel(t)
    \/ \E t \in Tasks : Finish(t)
    \/ Tick

Spec == Init /\ [][Next]_vars

SpecGimpy == InitGimpy /\ [][Next]_vars

\* The steps of a request between its arrival and ServeHTTP's return.
Resolve(t) ==
    \/ RLock(t) \/ matchRead(t) \/ RUnlock(t) \/ ExchangeReturn(t)
    \/ Lock(t) \/ LockAcquire(t) \/ lookupStore(t) \/ Unlock(t)

\* A goroutine that can run does run, every exchange returns, and sync.RWMutex
\* hands the lock to a goroutine that is enabled again and again.
Fairness ==
    \A t \in Tasks :
        /\ WF_vars(matchRead(t)) /\ WF_vars(RUnlock(t)) /\ WF_vars(ExchangeReturn(t))
        /\ WF_vars(LockAcquire(t)) /\ WF_vars(lookupStore(t)) /\ WF_vars(Unlock(t))
        /\ SF_vars(RLock(t)) /\ SF_vars(Lock(t))

\* Concurrent requests, one per goroutine, from arrival to ServeHTTP's return.
NextFair ==
    \/ \E t \in Tasks : ServeHTTP(t)
    \/ \E t \in Tasks : RLock(t)
    \/ \E t \in Tasks : matchRead(t)
    \/ \E t \in Tasks : RUnlock(t)
    \/ \E t \in Tasks : ExchangeReturn(t)
    \/ \E t \in Tasks : Lock(t)
    \/ \E t \in Tasks : LockAcquire(t)
    \/ \E t \in Tasks : lookupStore(t)
    \/ \E t \in Tasks : Unlock(t)
    \/ \E t \in Tasks : Cancel(t)
    \/ Tick

SpecFair == Init /\ [][NextFair]_vars /\ Fairness


\* ------------------------------------------------- the parser on its own
\* Characters the parser is driven with: a letter and two kinds of white space.
Alphabet == {"a", " ", "\t"}

StringsUpTo(n) == UNION { [1..k -> Alphabet] : k \in 0..n }

\* What may stand before the remainder: the literal, the literal without its
\* space, a capitalised literal, a longer word ending in the literal, nothing.
Prefixes ==
    { p,
      <<"g", "o", "-", "i", "m", "p", "o", "r", "t">>,
      <<"G", "o", "-", "i", "m", "p", "o", "r", "t", " ">>,
      <<"n", "o", "t", "-">> \o p,
      <<>> }

ParserInputs == { pre \o rest : pre \in Prefixes, rest \in StringsUpTo(MaxLen) }

InitParse ==
    /\ prog = "vanity"
    /\ NewServer
    /\ str \in ParserInputs
    /\ parsed = Unparsed

\* parseImport is applied to the input.
Parse ==
    /\ parsed = Unparsed
    /\ parsed' = parseImport(str)
    /\ UNCHANGED <<prog, now, hosts, storedAt, storedQ, muVars, taskVars, str>>

NextParse == Parse

SpecParse == InitParse /\ [][NextParse]_vars

\* ------------------------------------------------- the hostname in isolation
\* r.Host of a request: a nonempty string of name characters, colons and
\* digits, up to MaxHostLen characters.
HostAlphabet == {"a", ":", "8"}

HostStrings == UNION { [1..k -> HostAlphabet] : k \in 1..MaxHostLen }

\* Either command receives a request with some Host.
InitHost ==
    /\ prog \in {"vanity", "gimpy"}
    /\ NewServer
    /\ str \in HostStrings
    /\ parsed = Unparsed

\* ServeHTTP computes the hostname it passes to match and lookup.
ExtractHost ==
    /\ parsed = Unparsed
    /\ parsed' = [hostname |-> IF prog = "gimpy" THEN gimpyHost(str) ELSE vanityHost(str)]
    /\ UNCHANGED <<prog, now, hosts, storedAt, storedQ, muVars, taskVars, str>>

NextHost == ExtractHost

SpecHost == InitHost /\ [][NextHost]_vars


\* ------------------------------------------------------------------ claims
InLookup == {"lock", "lockwait", "store", "unlock"}

\* The entry of hostname k was stored at time T = storedAt[k] with refresh
\* period D = Refresh, and time u is before T+D.
Unexpired(k, u) == k \in DOMAIN hosts /\ u < storedAt[k] + Refresh
Expired(k, u) == k \in DOMAIN hosts /\ u >= storedAt[k] + Refresh

\* C1: cache freshness. A match of H that reads the map at a time before T+D,
\* where the entry of H was built at T, returns that very entry; the request is
\* then answered from the entry without any DNS exchange, while the request
\* whose lookup stores an entry has made exactly one exchange.
C1_CacheFreshness ==
    /\ [][\A t \in Tasks :
            (pc[t] = "read" /\ pc'[t] = "runlock" /\ Unexpired(host[t], now))
                => h'[t] = hosts[host[t]]]_vars
    /\ [][\A t \in Tasks :
            (pc[t] = "runlock" /\ pc'[t] # "runlock" /\ h[t] # Nil)
                => /\ pc'[t] = "done"
                   /\ calls'[t] = 0
                   /\ resp'[t] = [status |-> 200, body |-> metaTmpl(h[t].imports)]]_vars
    /\ [](\A t \in Tasks : fast[t] => calls[t] = 0)
    /\ [](\A t \in Tasks : pc[t] \in InLookup => calls[t] = 1)

\* A request answered from the fast path at the last tick before the entry expires.
C1_Witness ==
    \E t \in Tasks :
        /\ pc[t] = "done" /\ fast[t] /\ calls[t] = 0
        /\ host[t] \in DOMAIN hosts /\ h[t] = hosts[host[t]]
        /\ now > storedAt[host[t]]
        /\ now = storedAt[host[t]] + Refresh - 1

\* C2: expiry triggers refresh. A match of H that reads the map at a time T' >=
\* T+D returns nil, ServeHTTP then issues a DNS exchange, and when the lookup
\* succeeds the entry it stores and renders is the one built from the new answer
\* at the new time.
C2_ExpiryRefresh ==
    /\ [][\A t \in Tasks :
            (pc[t] = "read" /\ pc'[t] = "runlock" /\ Expired(host[t], now))
                => h'[t] = Nil]_vars
    /\ [][\A t \in Tasks :
            (pc[t] = "runlock" /\ pc'[t] # "runlock" /\ h[t] = Nil)
                => pc'[t] = "wait" /\ calls'[t] = calls[t] + 1]_vars
    /\ [](\A t \in Tasks :
            pc[t] = "unlock"
                => /\ hosts[host[t]] = buildHost(r[t], tnow[t])
                   /\ storedAt[host[t]] = tnow[t]
                   /\ h[t] = hosts[host[t]])
    /\ [](\A t \in Tasks :
            (pc[t] = "done" /\ calls[t] = 1 /\ err[t] = Nil)
                => resp[t] = [status |-> 200,
                              body |-> metaTmpl(buildHost(r[t], tnow[t]).imports)])

\* A match that missed at exactly T' = T+D although the entry is still in the map.
C2_Witness ==
    \E t \in Tasks :
        /\ pc[t] = "runlock" /\ h[t] = Nil
        /\ host[t] \in DOMAIN hosts
        /\ now = storedAt[host[t]] + Refresh

\* The strings of the TXT answers of a message, in answer order.
RECURSIVE TxtStrings(_)
TxtStrings(answer) ==
    IF answer = <<>> THEN <<>>
    ELSE (IF Head(answer).Type = "TXT" THEN Head(answer).Txt ELSE <<>>)
         \o TxtStrings(Tail(answer))

\* The directives of a message: each string parseImport accepts, in that order.
Directives(msg) ==
    LET ok(x) == parseImport(x) # Nil
        kept == SelectSeq(TxtStrings(msg.Answer), ok)
    IN  [i \in 1..Len(kept) |-> parseImport(kept[i])]

\* C3: no negative caching. When the exchange succeeds without a valid
\* directive, lookup returns the not-found error, ServeHTTP answers 404, and the
\* hosts map is unchanged; and as long as nobody stored an entry for H since the
\* failed request's match, a match of H still misses, so the next resolve goes
\* to DNS again.
C3_NoNegativeCaching ==
    /\ [][\A t \in Tasks :
            (pc[t] = "wait" /\ pc'[t] # "wait" /\ r'[t] # Nil /\ Directives(r'[t]) = <<>>)
                => /\ hosts' = hosts
                   /\ err'[t] = ErrNoImports
                   /\ h'[t] = Nil
                   /\ resp'[t] = [status |-> 404]
                   /\ pc'[t] = "done"]_vars
    /\ [](\A t \in Tasks :
            (pc[t] = "done" /\ err[t] = ErrNoImports /\ ~dirty[t])
                => matchResult(hosts, host[t], now) = Nil)

\* A refresh that found only malformed records: not-found, the expired entry
\* is still in the map, and a match would miss again.
C3_Witness ==
    \E t \in Tasks :
        /\ pc[t] = "done" /\ err[t] = ErrNoImports /\ ~dirty[t]
        /\ r[t] # Nil /\ r[t].Answer # <<>>
        /\ host[t] \in DOMAIN hosts

\* C4: a DNS error surfaces without caching. When the exchange returns an error,
\* lookup returns that error to ServeHTTP, which answers 404; the step leaves
\* the hosts map as it was and ends the call, so the call stores nothing.
C4_DNSErrorNotCached ==
    /\ [][\A t \in Tasks :
            (pc[t] = "wait" /\ pc'[t] # "wait" /\ lerr'[t] # Nil)
                => /\ hosts' = hosts
                   /\ err'[t] = lerr'[t]
                   /\ h'[t] = Nil
                   /\ resp'[t] = [status |-> 404]
                   /\ pc'[t] = "done"]_vars
    /\ [](\A t \in Tasks : lerr[t] # Nil => pc[t] = "done" /\ err[t] = lerr[t])

\* A failed refresh: the exchange failed and the expired entry is untouched.
C4_Witness ==
    \E t \in Tasks :
        /\ pc[t] = "done" /\ lerr[t] \in DNSErrors /\ err[t] = lerr[t]
        /\ ~dirty[t] /\ host[t] \in DOMAIN hosts

\* C5: every entry stored in the hosts map has at least one import.
C5_StoredNonEmpty ==
    \A k \in DOMAIN hosts : hosts[k] # Nil /\ Len(hosts[k].imports) > 0

\* An entry is stored while another request has just ended without imports.
C5_Witness ==
    /\ DOMAIN hosts # {}
    /\ \E t \in Tasks : pc[t] = "done" /\ err[t] = ErrNoImports /\ host[t] \notin DOMAIN hosts

\* C6: concurrent safety. The map is read only under the read lock and written
\* only under the exclusive lock; the exclusive lock excludes every reader and
\* every other writer; and match returns what the map holds at its read.
C6_ConcurrentSafety ==
    /\ [](\A t \in Tasks : pc[t] \in {"read", "runlock"} => t \in readers /\ ~locked)
    /\ [](\A t \in Tasks : pc[t] \in {"store", "unlock"} => w = t /\ locked /\ readers = {})
    /\ [](\A t, u \in Tasks :
            (t # u /\ pc[t] = "store") => pc[u] \notin {"read", "store"})
    /\ [][hosts' # hosts => \E t \in Tasks : pc[t] = "store" /\ w = t /\ locked
                                              /\ hosts' = Put(hosts, host[t], h[t])]_vars
    /\ [][\A t \in Tasks :
            (pc[t] = "read" /\ pc'[t] = "runlock")
                => h'[t] \in {Nil, Get(hosts, host[t])}]_vars

\* A writer stores while another request waits for the read lock.
C6_Witness ==
    \E t, u \in Tasks :
        /\ pc[t] = "store" /\ pc[u] = "rlock" /\ host[u] = host[t]
        /\ host[t] \in DOMAIN hosts

\* The maximal runs of non-space characters of x, as index pairs.
Runs(x) ==
    { ij \in (1..Len(x)) \X (1..Len(x)) :
        /\ ij[1] <= ij[2]
        /\ \A k \in ij[1]..ij[2] : x[k] \notin {" ", "\t", "\n"}
        /\ (ij[1] = 1 \/ x[ij[1] - 1] \in {" ", "\t", "\n"})
        /\ (ij[2] = Len(x) \/ x[ij[2] + 1] \in {" ", "\t", "\n"}) }

\* x starts with the ten characters of "go-import ".
StartsWithLiteral(x) ==
    /\ Len(x) >= 10
    /\ <<x[1], x[2], x[3], x[4], x[5], x[6], x[7], x[8], x[9], x[10]>>
         = <<"g", "o", "-", "i", "m", "p", "o", "r", "t", " ">>

\* C7: parser correctness. parseImport(str) is a directive iff str starts with
\* "go-import " and the remainder has exactly three white-space separated
\* tokens; prefix, vcs and url are these tokens in order.
C7_ParserCorrect ==
    parsed # Unparsed =>
        LET rest == SubSeq(str, 11, Len(str))
            accept == StartsWithLiteral(str) /\ Cardinality(Runs(rest)) = 3
        IN  /\ (parsed # Nil) <=> accept
            /\ accept =>
                 \E a, b, c \in Runs(rest) :
                    /\ a[2] < b[1] /\ b[2] < c[1]
                    /\ parsed = [Prefix |-> SubSeq(rest, a[1], a[2]),
                                 VCS |-> SubSeq(rest, b[1], b[2]),
                                 URL |-> SubSeq(rest, c[1], c[2])]

\* An accepted string with a tab, doubled spaces and a longer middle token.
C7_Witness ==
    /\ parsed # Unparsed /\ parsed # Nil
    /\ Len(parsed.VCS) > 1
    /\ \E i \in 1..Len(str) : str[i] = "\t"

\* C8: multi-directive ordering. The imports of the entry a lookup builds and
\* stores are exactly the directives of its answer, in answer order and string
\* order; non-TXT answers and malformed strings are dropped without failing it.
C8_DirectiveOrder ==
    /\ \A t \in Tasks : pc[t] \in InLookup => h[t].imports = Directives(r[t])
    /\ \A t \in Tasks : pc[t] = "unlock" => hosts[host[t]].imports = Directives(r[t])
    /\ \A t \in Tasks :
          (pc[t] = "done" /\ r[t] # Nil)
              => IF Directives(r[t]) = <<>> THEN err[t] = ErrNoImports
                 ELSE err[t] = Nil /\ h[t].imports = Directives(r[t])

\* The stored entry has two directives out of an answer with a non-TXT record
\* and malformed strings.
C8_Witness ==
    \E t \in Tasks :
        /\ pc[t] = "unlock"
        /\ Len(r[t].Answer) = 3
        /\ Len(hosts[host[t]].imports) = 2
        /\ hosts[host[t]].imports[1].Prefix = <<"b">>

\* C9: cancellation. Once the request is cancelled while its exchange is in
\* flight, the exchange is aborted: it delivers no answer and lookup goes no
\* further.
C9_CancelAborts ==
    [][\A t \in Tasks :
         (cancelled[t] /\ pc[t] = "wait" /\ pc'[t] # "wait")
             => r'[t] = Nil /\ pc'[t] = "done"]_vars

\* C10: a request whose go-get value is not "1" is answered with a redirect,
\* without match or lookup: no exchange, no lock, the hosts map unchanged.
C10_NoGoGetRedirect ==
    /\ [][\A t \in Tasks :
            (pc[t] = "idle" /\ pc'[t] # "idle" /\ goget'[t] # "1")
                => /\ pc'[t] = "done"
                   /\ resp'[t].status = 302
                   /\ hosts' = hosts /\ calls'[t] = 0
                   /\ readers' = readers /\ w' = w]_vars
    /\ [](\A t \in Tasks : (pc[t] # "idle" /\ goget[t] # "1") => pc[t] = "done")

\* The resolution of a finished go-get=1 request failed: the exchange returned
\* an error, or its answer held no valid directive.
ResolutionFailed(t) == lerr[t] # Nil \/ (r[t] # Nil /\ Directives(r[t]) = <<>>)

\* The go-import meta tag of one directive.
MetaTag(d) ==
    [name |-> "go-import", content |-> d.Prefix \o <<" ">> \o d.VCS \o <<" ">> \o d.URL]

\* C11: a finished go-get=1 request is answered not-found iff its resolution
\* failed; otherwise the body is one go-import meta tag per directive of the
\* resolved entry, in the entry's order.
C11_ResponseShape ==
    \A t \in Tasks :
        (pc[t] = "done" /\ goget[t] = "1")
            => /\ (resp[t].status = 404) <=> ResolutionFailed(t)
               /\ ResolutionFailed(t) <=> err[t] # Nil
               /\ ~ResolutionFailed(t)
                    => /\ resp[t].status = 200
                       /\ h[t] # Nil
                       /\ Len(resp[t].body) = Len(h[t].imports)
                       /\ \A i \in 1..Len(h[t].imports) :
                             resp[t].body[i] = MetaTag(h[t].imports[i])

\* A cached entry of two directives is rendered while another request of the
\* same host has just failed.
C11_Witness ==
    \E t, u \in Tasks :
        /\ pc[t] = "done" /\ goget[t] = "1" /\ fast[t]
        /\ Len(resp[t].body) = 2
        /\ resp[t].body[1].content # resp[t].body[2].content
        /\ pc[u] = "done" /\ goget[u] = "1" /\ host[u] = host[t] /\ resp[u].status = 404

\* C12: no lock is held across network I/O. A request whose exchange is in
\* flight holds the mutex in no mode; the read lock is held only inside match,
\* before any exchange; the exclusive lock is requested only by a lookup whose
\* exchange and parsing are finished; and when no request is inside match or
\* between Lock and Unlock, the mutex is free, however many exchanges hang.
C12_NoLockAcrossIO ==
    /\ \A t \in Tasks : pc[t] = "wait" => (t \notin readers /\ w # t)
    /\ \A t \in readers : pc[t] \in {"read", "runlock"} /\ calls[t] = 0
    /\ \A t \in Tasks :
          w = t => /\ pc[t] \in {"lockwait", "store", "unlock"}
                   /\ calls[t] = 1 /\ r[t] # Nil
                   /\ h[t] = buildHost(r[t], tnow[t])
    /\ locked => (w # NoTask /\ pc[w] \in {"store", "unlock"})
    /\ (\A t \in Tasks : pc[t] \in {"idle", "rlock", "wait", "lock", "done"})
          => (readers = {} /\ w = NoTask /\ ~locked)

\* One request stores while the exchange of another for the same host is still
\* in flight.
C12_Witness ==
    \E t, u \in Tasks :
        /\ pc[t] = "wait" /\ pc[u] = "store" /\ host[t] = host[u]
        /\ w = u /\ locked /\ readers = {}

\* C13: visibility and last writer wins. A match of H that holds the read lock
\* while the stored entry of H is unexpired has observed exactly that entry; a
\* lookup that has stored and not yet unlocked finds its own entry in the slot;
\* and the slot of H changes only in the store of a lookup for H that holds the
\* exclusive lock, to that lookup's entry, whatever the slot held before.
C13_LastWriterWins ==
    /\ [](\A t \in Tasks :
            (pc[t] = "runlock" /\ Unexpired(host[t], now)) => h[t] = hosts[host[t]])
    /\ [](\A t \in Tasks : pc[t] = "unlock" => hosts[host[t]] = h[t])
    /\ [][\A k \in DOMAIN hosts' :
            Get(hosts, k) # hosts'[k]
                => \E t \in Tasks :
                      /\ pc[t] = "store" /\ pc'[t] = "unlock" /\ host[t] = k
                      /\ w = t /\ locked
                      /\ hosts'[k] = h[t]]_vars

\* Two lookups of one host: the one whose exchange returned later stored first,
\* and the other, holding the lock last, has replaced its entry by an older one.
C13_Witness ==
    \E t, u \in Tasks :
        /\ pc[t] = "unlock" /\ pc[u] = "done"
        /\ host[u] = host[t] /\ calls[u] = 1 /\ err[u] = Nil
        /\ tnow[u] > tnow[t]
        /\ h[u] # h[t]
        /\ hosts[host[t]] = h[t]

\* C14: a resolve issues at most one DNS exchange: none up to the end of match,
\* none at all when match hits, exactly one from the moment lookup is entered,
\* whatever the exchange returns, and each resolve that misses issues its own.
C14_OneExchange ==
    \A t \in Tasks :
        /\ calls[t] \in {0, 1}
        /\ pc[t] \in {"idle", "rlock", "read", "runlock"} => calls[t] = 0
        /\ pc[t] \in {"wait"} \cup InLookup => calls[t] = 1
        /\ pc[t] = "done"
              => calls[t] = (IF goget[t] = "1" /\ ~fast[t] THEN 1 ELSE 0)
        /\ (pc[t] = "done" /\ lerr[t] # Nil) => calls[t] = 1

\* Two resolves of one host both missed and each has its own exchange in
\* flight.
C14_Witness ==
    \E t, u \in Tasks :
        /\ t # u /\ host[t] = host[u]
        /\ pc[t] = "wait" /\ pc[u] = "wait"
        /\ calls[t] = 1 /\ calls[u] = 1

\* C15: entries are replaced wholesale. Every stored entry is the complete
\* build of one DNS answer; a slot changes only to the complete entry the
\* storing lookup built from its own answer; and the entry a request holds
\* changes only by a step of that request, so a holder of a replaced entry
\* keeps a complete, internally consistent one.
C15_WholesaleReplace ==
    /\ [](\A k \in DOMAIN hosts :
            \E msg \in Responses : hosts[k] = buildHost(msg, storedAt[k]))
    /\ [][\A k \in DOMAIN hosts' :
            Get(hosts, k) # hosts'[k]
                => \E t \in Tasks :
                      /\ pc[t] = "store" /\ host[t] = k
                      /\ hosts'[k] = buildHost(r[t], tnow[t])]_vars
    /\ [][\A t \in Tasks : h'[t] # h[t] => pc'[t] # pc[t]]_vars

\* A request that hit holds an entry which a concurrent lookup has since
\* replaced in the map by a different one.
C15_Witness ==
    \E t, u \in Tasks :
        /\ pc[t] = "done" /\ fast[t] /\ h[t] # Nil
        /\ host[u] = host[t] /\ pc[u] = "unlock"
        /\ hosts[host[t]] = h[u]
        /\ h[t] # hosts[host[t]]
        /\ h[t].imports # hosts[host[t]].imports

\* The position of the colon that separates a port, 0 when r.Host has none.
PortColon(rHost) == lastColon(rHost, Len(rHost))

\* C16: the hostname handed to match and lookup is r.Host with its port
\* stripped: a Host without a colon is used unchanged, and so is never empty,
\* and a Host of the form name:port gives the name.
C16_HostnameFromHost ==
    parsed # Unparsed
        => LET i == PortColon(str)
           IN  /\ i = 0 => (parsed.hostname = str /\ parsed.hostname # <<>>)
               /\ (i > 1 /\ lastColon(str, i - 1) = 0)
                     => parsed.hostname = SubSeq(str, 1, i - 1)

\* C16 restricted to the vanity command, where it holds.
C16_VanityHostname == prog = "vanity" => C16_HostnameFromHost

\* C17: entries are never deleted. No step removes a hostname from the map, and
\* the map changes only in the store of a lookup that succeeded, which adds or
\* overwrites the slot of its own hostname and leaves every other slot as it
\* was; the passing of time and a failing lookup leave the map as it is.
C17_NeverDeleted ==
    [][/\ DOMAIN hosts \subseteq DOMAIN hosts'
       /\ hosts' # hosts
            => \E t \in Tasks :
                  /\ pc[t] = "store" /\ pc'[t] = "unlock"
                  /\ lerr[t] = Nil /\ err[t] = Nil /\ ~noImports(h[t])
                  /\ DOMAIN hosts' = DOMAIN hosts \cup {host[t]}
                  /\ \A k \in DOMAIN hosts \ {host[t]} : hosts'[k] = hosts[k]
       /\ now' # now => hosts' = hosts
       /\ \A t \in Tasks : (err'[t] # Nil /\ err[t] = Nil) => hosts' = hosts]_vars

\* Both hostnames have entries, both expired, and a refresh of one of them has
\* just failed on a DNS error while the other task is idle.
C17_Witness ==
    \E t, u \in Tasks :
        /\ t # u
        /\ Cardinality(DOMAIN hosts) = 2
        /\ \A k \in DOMAIN hosts : ~After(hosts[k].expiry, now)
        /\ pc[t] = "done" /\ lerr[t] # Nil /\ calls[t] = 1
        /\ host[t] \in DOMAIN hosts
        /\ pc[u] = "idle"

\* C18: a stale entry is never served. An entry returned by match is the stored
\* one and expires strictly after the time of the check; an entry served after
\* a miss is the one built from the answer to the request's own exchange; and a
\* request whose lookup fails holds no entry and is answered 404 with no meta
\* tag, while the failing step leaves the stored entry, expired or not, in
\* its slot.
C18_NoStaleServed ==
    /\ [][\A t \in Tasks :
            (pc[t] = "read" /\ pc'[t] = "runlock" /\ h'[t] # Nil)
                => /\ h'[t] = hosts[host[t]]
                   /\ h'[t].expiry > now
                   /\ now < storedAt[host[t]] + Refresh]_vars
    /\ [](\A t \in Tasks :
            (pc[t] = "done" /\ goget[t] = "1")
                => /\ (resp[t].status = 200 /\ ~fast[t])
                        => (calls[t] = 1 /\ h[t] = buildHost(r[t], tnow[t]))
                   /\ err[t] # Nil
                        => (h[t] = Nil /\ resp[t] = [status |-> 404]))
    /\ [][\A t \in Tasks :
            (err[t] = Nil /\ err'[t] # Nil /\ host[t] \in DOMAIN hosts)
                => (host[t] \in DOMAIN hosts' /\ hosts'[host[t]] = hosts[host[t]])]_vars

\* The entry of a host has expired, nothing was stored for the host since the
\* request's match missed it, and the request's refresh found no directive:
\* the request is answered 404 and the expired entry is still in the map.
C18_Witness ==
    \E t \in Tasks :
        /\ pc[t] = "done" /\ goget[t] = "1" /\ err[t] = ErrNoImports
        /\ resp[t].status = 404 /\ h[t] = Nil
        /\ ~dirty[t]
        /\ Expired(host[t], now)
        /\ Len(hosts[host[t]].imports) > 0

\* C19: no cross-host contamination. The entry stored under H answers the
\* question H. of the lookup that stored it; a lookup asks about its own
\* hostname and stores, under that hostname, the entry built from its own
\* answer; and a request is served either the stored entry of its own hostname
\* or the entry built from the answer to its own question.
C19_NoCrossHost ==
    /\ \A k \in DOMAIN hosts : storedQ[k] = Question(k)
    /\ \A t \in Tasks :
          /\ pc[t] \in {"wait"} \cup InLookup => qname[t] = Question(host[t])
          /\ pc[t] = "unlock"
                => /\ hosts[host[t]] = buildHost(r[t], tnow[t])
                   /\ storedQ[host[t]] = qname[t]
          /\ (pc[t] = "runlock" /\ h[t] # Nil) => h[t] = hosts[host[t]]
          /\ (pc[t] = "done" /\ goget[t] = "1" /\ resp[t].status = 200)
                => IF fast[t]
                   THEN qname[t] = <<>> /\ r[t] = Nil
                   ELSE qname[t] = Question(host[t]) /\ h[t] = buildHost(r[t], tnow[t])

\* Lookups of two different hostnames interleave: one has stored and not yet
\* unlocked while the other, whose answer differs, waits to store, and the two
\* hostnames have entries with different directives.
C19_Witness ==
    \E t, u \in Tasks :
        /\ host[t] # host[u]
        /\ pc[t] = "unlock" /\ pc[u] = "lock"
        /\ r[t] # r[u]
        /\ host[u] \in DOMAIN hosts
        /\ hosts[host[u]].imports # hosts[host[t]].imports

\* The requests that are inside ServeHTTP.
Active == {t \in Tasks : pc[t] \notin {"idle", "done"}}

\* C20: deadlock freedom and termination. A request that has returned from
\* match or lookup, or has not entered them, holds no lock; whenever requests
\* are in flight one of them can take a step; and, every exchange returning and
\* lock acquisition being fair, every request in flight reaches ServeHTTP's
\* return, with an entry served or a failure answered.
C20_Termination ==
    /\ [](\A t \in Tasks :
            pc[t] \in {"idle", "rlock", "wait", "lock", "done"}
                => (t \notin readers /\ w # t))
    /\ [](Active # {} => \E t \in Active : ENABLED Resolve(t))
    /\ \A t \in Tasks :
          (t \in Active) ~> (pc[t] = "done" /\ resp[t] # Nil /\ resp[t].status \in {200, 404})

\* A writer has announced itself and waits for a reader of the same hostname
\* to leave: the writer is blocked, the reader is not.
C20_Witness ==
    \E t, u \in Tasks :
        /\ pc[t] = "lockwait" /\ w = t /\ ~locked
        /\ pc[u] = "runlock" /\ u \in readers
        /\ host[t] = host[u]
        /\ ~ENABLED Resolve(t)

====
